---- MODULE Spec2Model ----
(***************************************************************************)
(* Model of the CSP solver: arc consistency (arc_consistency.py) driven by *)
(* domain splitting (domain_splitting.py), consumed by find_one_solution / *)
(* find_all_solutions (csp_solver.py).                                     *)
(*                                                                         *)
(* Python objects that are shared by reference are kept in a heap:         *)
(*   dicts : dict id -> (variable name -> set id)                          *)
(*   sets  : set id  -> set of values                                      *)
(* A dict id is <<d, i>>: i = 0 is the local `domains` of the call at      *)
(* depth d, i = 1, 2 are the variables dicts of new_csps[0], new_csps[1]   *)
(* built by the call at depth d; <<0, 1>> is the Problem given by the      *)
(* caller.  A set id is <<d, k, v>>: k = 0 the deep copy made by the call  *)
(* at depth d, k = 1 the latest new_domain bound to v by that call,        *)
(* k = 2, 3 the two parts of the partition (for d = 0, k = 0 is the        *)
(* caller's own set).  Objects of a call are freed when its frame ends.    *)
(***************************************************************************)
EXTENDS Integers, Sequences, FiniteSets, TLC

\* ---------------------------------------------------------------- bounds
MaxVal == 3
MaxConstraints == 2

\* ---------------------------------------------------------------- inputs
\* csp.variables: the keys in insertion order, and the candidate values
VarOrder == <<"A", "B", "C">>
VarNames == {VarOrder[i] : i \in 1..Len(VarOrder)}
Values == 1..MaxVal

\* The domains a Problem module may give a variable: 1..k, also the empty one
InitialDomains == {1..k : k \in 0..MaxVal}

Range(s) == {s[i] : i \in 1..Len(s)}

EmptyAssignment == [x \in {} |-> 0]

\* The predicate functions a Problem module may define; each is called with
\* keyword arguments, i.e. with a mapping from variable names to values.
Apply(function, kw) ==
    CASE function = "LessThanAB"   -> kw["A"] < kw["B"]
      [] function = "AllDifferent" ->
            \A x \in DOMAIN kw : \A y \in DOMAIN kw : x # y => kw[x] # kw[y]
      [] function = "Difference"   -> kw["C"] = kw["B"] - kw["A"]
      [] function = "AEquals4"     -> kw["A"] = 4

\* Constraint objects (function, variables) a Problem's list may hold
Constraint(function, variables) ==
    [function |-> function, variables |-> variables]

ConstraintCatalogue ==
    { Constraint("LessThanAB", <<"A", "B">>),
      Constraint("AllDifferent", <<"A", "B">>),
      Constraint("AllDifferent", <<"B", "C">>),
      Constraint("AllDifferent", <<"A", "B", "C">>),
      Constraint("Difference", <<"A", "B", "C">>),
      Constraint("AEquals4", <<"A">>) }

ConstraintLists ==
    UNION {[1..n -> ConstraintCatalogue] : n \in 0..MaxConstraints}

\* a check that accepts every assignment
check_always(constraint, assignment) == TRUE

\* Constraint.check
check(constraint, assignment) == Apply(constraint.function, assignment)

\* Constraint.__eq__ / __hash__: by wrapped function only
ConstraintEq(c1, c2) == c1.function = c2.function

\* ------------------------------------------------------- arc_consistency.py
\* Arc(constraint, variable): the constraint is named by its position in
\* csp.constraints (object identity); two arcs compare equal as namedtuples do,
\* field by field, the constraint field through Constraint.__eq__
Arc(constraint, variable) == [constraint |-> constraint, variable |-> variable]

ArcEq(cs, a, b) ==
    ConstraintEq(cs[a.constraint], cs[b.constraint]) /\ a.variable = b.variable

\* Agenda.add_arc: set.add keeps the element already present when an equal one
\* is added
add_arc(cs, arcset, arc) ==
    IF \E a \in arcset : ArcEq(cs, a, arc) THEN arcset ELSE arcset \cup {arc}

RECURSIVE add_arcs(_, _, _)
add_arcs(cs, arcset, arclist) ==
    IF arclist = <<>> THEN arcset
    ELSE add_arcs(cs, add_arc(cs, arcset, Head(arclist)), Tail(arclist))

\* next_arc that reads an arc of the agenda without removing it
next_arc_keep(arcset, arc) == arcset

\* Agenda.next_arc: what is left once the popped arc is removed
next_arc(arcset, arc) == arcset \ {arc}

\* get_initial_arcs: one arc from each constraint to each of its variables,
\* in list order
RECURSIVE get_initial_arcs_from(_, _)
get_initial_arcs_from(cs, i) ==
    IF i > Len(cs) THEN <<>>
    ELSE [k \in 1..Len(cs[i].variables) |-> Arc(i, cs[i].variables[k])]
         \o get_initial_arcs_from(cs, i + 1)

get_initial_arcs(cs) == get_initial_arcs_from(cs, 1)

\* domain_product that yields no combination, not even the empty one
domain_product_none(domains) == {}

\* domain_product / get_assignment: all combinations of values in domains
RECURSIVE domain_product(_)
domain_product(domains) ==
    IF DOMAIN domains = {} THEN {EmptyAssignment}
    ELSE LET var == CHOOSE v \in DOMAIN domains : TRUE
             remaining_domains == [x \in DOMAIN domains \ {var} |-> domains[x]]
         IN  {(var :> value) @@ remaining_assignment :
                 remaining_assignment \in domain_product(remaining_domains),
                 value \in domains[var]}

\* make_consistent that tries every value, not only those of the current domain
make_consistent_any(cs, arc, domains) ==
    LET other_vars == {var \in Range(cs[arc.constraint].variables) :
                          var # arc.variable}
        other_domains == [var \in DOMAIN domains \cap other_vars |-> domains[var]]
    IN  {value \in Values :
            \E other_values \in domain_product(other_domains) :
                check(cs[arc.constraint], (arc.variable :> value) @@ other_values)}

\* make_consistent: new domain for arc.variable
make_consistent(cs, arc, domains) ==
    LET other_vars == {var \in Range(cs[arc.constraint].variables) :
                          var # arc.variable}
        current_domain == domains[arc.variable]
        other_domains == [var \in DOMAIN domains \cap other_vars |-> domains[var]]
    IN  {value \in current_domain :
            \E other_values \in domain_product(other_domains) :
                check(cs[arc.constraint], (arc.variable :> value) @@ other_values)}

\* invalidated_arcs that reports no arc
invalidated_arcs_none(cs, current_arc, arcs) == <<>>

\* invalidated_arcs: arcs to re-check after current_arc's variable changed
invalidated_arcs(cs, current_arc, arcs) ==
    LET current_var == current_arc.variable
        keep(arc) ==
            /\ ~ConstraintEq(cs[arc.constraint], cs[current_arc.constraint])
            /\ current_var \in Range(cs[arc.constraint].variables)
            /\ arc.variable # current_var
    IN  SelectSeq(arcs, keep)

\* ------------------------------------------------------ domain_splitting.py
\* some_empty: the domain for at least one variable is empty
some_empty(domains) == \E var \in DOMAIN domains : domains[var] = {}

\* unique: each variable has exactly one value
unique(domains) == \A var \in DOMAIN domains : Cardinality(domains[var]) = 1

\* get_split_var that looks for a domain with more than two values
get_split_var_two(domains) ==
    LET found == {i \in 1..Len(VarOrder) : Cardinality(domains[VarOrder[i]]) > 2}
    IN  IF found = {} THEN "assert"
        ELSE VarOrder[CHOOSE i \in found : \A j \in found : i <= j]

\* get_split_var that picks the last variable with more than one value
get_split_var_last(domains) ==
    LET found == {i \in 1..Len(VarOrder) : Cardinality(domains[VarOrder[i]]) > 1}
    IN  IF found = {} THEN "assert"
        ELSE VarOrder[CHOOSE i \in found : \A j \in found : i >= j]

\* get_split_var: the first variable, in the dict's order, with more than one
\* value; "assert" when the loop finds none (assert False)
get_split_var(domains) ==
    LET found == {i \in 1..Len(VarOrder) : Cardinality(domains[VarOrder[i]]) > 1}
    IN  IF found = {} THEN "assert"
        ELSE VarOrder[CHOOSE i \in found : \A j \in found : i <= j]

\* The orders in which iterating over a set may present its elements
IterationOrders(domain) ==
    {order \in [1..Cardinality(domain) -> domain] :
        \A i, j \in DOMAIN order : i # j => order[i] # order[j]}

\* partition_domain that puts the last value into both parts
partition_domain_overlap(order) ==
    << {order[i] : i \in {k \in DOMAIN order : k % 2 = 1}},
       {order[i] : i \in {k \in DOMAIN order : k % 2 = 0 \/ k = Len(order)}} >>

\* partition_domain: values go to part1 and part2 in turn, in iteration order
partition_domain(order) ==
    << {order[i] : i \in {k \in DOMAIN order : k % 2 = 1}},
       {order[i] : i \in {k \in DOMAIN order : k % 2 = 0}} >>

\* ------------------------------------------------------------------- state
VARIABLES
    constraints,  \* csp.constraints, the list shared by every derived Problem
    original,     \* the domains of the caller's Problem when it was handed over
    dicts,        \* heap: dict id -> (variable -> set id)
    sets,         \* heap: set id -> set of values
    stack,        \* the active calls, outermost first
    agenda,       \* Agenda._arcs of the running arc_consistency call
    mode,         \* "one": find_one_solution, "all": find_all_solutions,
                  \* "ac": arc_consistency called twice, the second time on
                  \*       its own result
    consumer,     \* "idle", "waiting", "got", "done"
    yielded,      \* bag of the assignments the consumer has received
    ac_runs       \* number of arc_consistency calls started so far

vars == <<constraints, original, dicts, sets, stack, agenda, mode, consumer,
          yielded, ac_runs>>

RootCsp == <<0, 1>>
NoDict == <<0, 0>>

\* The value of a dict on the heap: variable -> set of values
Deref(id) == [var \in DOMAIN dicts[id] |-> sets[dicts[id][var]]]

Frame(csp, branch) ==
    [csp |-> csp, domains |-> NoDict, pc |-> "start", branch |-> branch]

depth == Len(stack)
top == stack[depth]
SetTop(f) == [stack EXCEPT ![depth] = f]

Init ==
    /\ constraints \in ConstraintLists
    /\ original \in [VarNames -> InitialDomains]
    /\ dicts = (RootCsp :> [var \in VarNames |-> <<0, 0, var>>])
    /\ sets = [id \in {<<0, 0, var>> : var \in VarNames} |-> original[id[3]]]
    /\ stack = <<>>
    /\ agenda = {}
    /\ mode \in {"one", "all", "ac"}
    /\ consumer = "idle"
    /\ yielded = EmptyAssignment
    /\ ac_runs = 0

\* ----------------------------------------------------------------- actions
\* get_initial_domains that hands out csp.variables itself
get_initial_domains_alias(d, csp) == [id |-> csp, dicts |-> dicts, sets |-> sets]

\* get_initial_domains: copy.deepcopy(csp.variables) for the call at depth d:
\* a new dict with a new set for every variable
get_initial_domains(d, csp) ==
    [id    |-> <<d, 0>>,
     dicts |-> (<<d, 0>> :> [var \in DOMAIN dicts[csp] |-> <<d, 0, var>>]) @@ dicts,
     sets  |-> [id \in {<<d, 0, var>> : var \in DOMAIN dicts[csp]} |->
                   sets[dicts[csp][id[3]]]] @@ sets]

\* arc_consistency, lines 65-72: copy the domains, fill the agenda
StartAC ==
    /\ consumer = "waiting"
    /\ depth > 0
    /\ top.pc = "start"
    /\ LET copy == get_initial_domains(depth, top.csp)
       IN  /\ dicts' = copy.dicts
           /\ sets' = copy.sets
           /\ stack' = SetTop([top EXCEPT !.domains = copy.id, !.pc = "ac"])
    /\ agenda' = add_arcs(constraints, {}, get_initial_arcs(constraints))
    /\ ac_runs' = ac_runs + 1
    /\ UNCHANGED <<constraints, original, mode, consumer, yielded>>

\* arc_consistency, lines 74-88: one iteration of the agenda loop
ACStep ==
    /\ consumer = "waiting"
    /\ depth > 0
    /\ top.pc = "ac"
    /\ \E current_arc \in agenda :
          LET domains == Deref(top.domains)
              rest == next_arc(agenda, current_arc)
              new_domain == make_consistent(constraints, current_arc, domains)
              old_domain == domains[current_arc.variable]
              new_id == <<depth, 1, current_arc.variable>>
          IN  IF new_domain # old_domain
              THEN /\ agenda' = add_arcs(constraints, rest,
                                    invalidated_arcs(constraints, current_arc,
                                        get_initial_arcs(constraints)))
                   /\ sets' = (new_id :> new_domain) @@ sets
                   /\ dicts' = [dicts EXCEPT
                                  ![top.domains][current_arc.variable] = new_id]
              ELSE /\ agenda' = rest
                   /\ UNCHANGED <<dicts, sets>>
    /\ UNCHANGED <<constraints, original, stack, mode, consumer, yielded, ac_runs>>

\* arc_consistency, lines 74 and 90: the agenda is empty, return domains
ACReturn ==
    /\ consumer = "waiting"
    /\ depth > 0
    /\ top.pc = "ac"
    /\ agenda = {}
    /\ stack' = SetTop([top EXCEPT !.pc = "decide"])
    /\ UNCHANGED <<constraints, original, dicts, sets, agenda, mode, consumer,
                   yielded, ac_runs>>

Searching == mode \in {"one", "all"} /\ consumer = "waiting" /\ depth > 0

\* domain_splitting, lines 40-41: some domain is empty, the generator ends
NoSolution ==
    /\ Searching
    /\ top.pc = "decide"
    /\ some_empty(Deref(top.domains))
    /\ stack' = SetTop([top EXCEPT !.pc = "end"])
    /\ UNCHANGED <<constraints, original, dicts, sets, agenda, mode, consumer,
                   yielded, ac_runs>>

BagAdd(bag, x) ==
    IF x \in DOMAIN bag THEN [bag EXCEPT ![x] = @ + 1] ELSE (x :> 1) @@ bag

\* an assignment that gives every variable the value 1
first_values_one(domains) == [var \in DOMAIN domains |-> 1]

\* domain_splitting, lines 43-44: {var: list(domain)[0] ...}, the first value
\* of each domain, which has exactly one when domains is unique
first_values(domains) ==
    [var \in DOMAIN domains |-> CHOOSE value \in domains[var] : TRUE]

\* domain_splitting, lines 42-44: yield the assignment; every enclosing
\* generator passes it on (lines 56-59) and the consumer receives it
YieldSolution ==
    /\ Searching
    /\ top.pc = "decide"
    /\ LET domains == Deref(top.domains)
       IN  /\ ~some_empty(domains)
           /\ unique(domains)
           /\ yielded' = BagAdd(yielded, first_values(domains))
    /\ stack' = SetTop([top EXCEPT !.pc = "yielded"])
    /\ consumer' = "got"
    /\ UNCHANGED <<constraints, original, dicts, sets, agenda, mode, ac_runs>>

\* make_split_csp that leaves the split variable's domain as it was
make_split_csp_keep(new_domains, split_var, split_set) == dicts[new_domains]

\* make_split_csp for new_csps[i - 1] of the call at depth d: a shallow copy
\* of the domains dict in which split_var is bound to the set split_set
make_split_csp(new_domains, split_var, split_set) ==
    [dicts[new_domains] EXCEPT ![split_var] = split_set]

\* domain_splitting, lines 46-56: split, build both sub-problems, start
\* iterating over the generator of the first
Split ==
    /\ Searching
    /\ top.pc = "decide"
    /\ LET domains == Deref(top.domains)
       IN  /\ ~some_empty(domains)
           /\ ~unique(domains)
           /\ LET split_var == get_split_var(domains)
              IN  /\ split_var # "assert"
                  /\ \E order \in IterationOrders(domains[split_var]) :
                        LET partition == partition_domain(order)
                            part1 == <<depth, 2, split_var>>
                            part2 == <<depth, 3, split_var>>
                        IN  /\ sets' = (part1 :> partition[1]) @@
                                       (part2 :> partition[2]) @@ sets
                            /\ dicts' =
                                 (<<depth, 1>> :>
                                    make_split_csp(top.domains, split_var, part1)) @@
                                 (<<depth, 2>> :>
                                    make_split_csp(top.domains, split_var, part2)) @@
                                 dicts
    /\ stack' = Append(SetTop([top EXCEPT !.pc = "for0"]), Frame(<<depth, 1>>, 1))
    /\ UNCHANGED <<constraints, original, agenda, mode, consumer, yielded, ac_runs>>

\* The heap without the objects owned by the call at depth d
Free(heap, d) == [id \in {x \in DOMAIN heap : x[1] # d} |-> heap[id]]

\* Return that ends the caller's loop over new_csps after the first sub-problem
ReturnSkipSecond ==
    /\ Searching
    /\ top.pc = "end"
    /\ dicts' = Free(dicts, depth)
    /\ sets' = Free(sets, depth)
    /\ LET callers == SubSeq(stack, 1, depth - 1)
       IN  IF depth = 1
           THEN /\ stack' = callers
                /\ consumer' = "done"
           ELSE /\ consumer' = consumer
                /\ stack' = [callers EXCEPT ![depth - 1].pc = "end"]
    /\ UNCHANGED <<constraints, original, agenda, mode, yielded, ac_runs>>

\* The generator on top has ended (StopIteration): its frame goes away; the
\* enclosing for loop ends and the caller moves on to line 58, to its own end,
\* or, for the outermost generator, the consumer's loop ends
Return ==
    /\ Searching
    /\ top.pc = "end"
    /\ dicts' = Free(dicts, depth)
    /\ sets' = Free(sets, depth)
    /\ LET callers == SubSeq(stack, 1, depth - 1)
           caller == stack[depth - 1]
       IN  IF depth = 1
           THEN /\ stack' = callers
                /\ consumer' = "done"
           ELSE /\ consumer' = consumer
                /\ IF caller.pc = "for0"
                   THEN stack' = Append([callers EXCEPT ![depth - 1].pc = "for1"],
                                        Frame(<<depth - 1, 2>>, 2))
                   ELSE stack' = [callers EXCEPT ![depth - 1].pc = "end"]
    /\ UNCHANGED <<constraints, original, agenda, mode, yielded, ac_runs>>

\* ------------------------------------------------------------ csp_solver.py
\* find_one_solution line 70 / find_all_solutions line 82: make the generator
\* and ask it for its first element
FirstNext ==
    /\ mode \in {"one", "all"}
    /\ consumer = "idle"
    /\ stack' = <<Frame(RootCsp, 0)>>
    /\ consumer' = "waiting"
    /\ UNCHANGED <<constraints, original, dicts, sets, agenda, mode, yielded, ac_runs>>

\* find_all_solutions line 82: list() asks for the next element; the innermost
\* generator resumes after its yield and runs off its end
FindAllNext ==
    /\ mode = "all"
    /\ consumer = "got"
    /\ stack' = SetTop([top EXCEPT !.pc = "end"])
    /\ consumer' = "waiting"
    /\ UNCHANGED <<constraints, original, dicts, sets, agenda, mode, yielded, ac_runs>>

\* find_one_solution without the break: the loop asks for the next element
FindOneContinue ==
    /\ mode = "one"
    /\ consumer = "got"
    /\ stack' = SetTop([top EXCEPT !.pc = "end"])
    /\ consumer' = "waiting"
    /\ UNCHANGED <<constraints, original, dicts, sets, agenda, mode, yielded, ac_runs>>

\* find_one_solution lines 73-75: print the solution and break
FindOneBreak ==
    /\ mode = "one"
    /\ consumer = "got"
    /\ consumer' = "done"
    /\ UNCHANGED <<constraints, original, dicts, sets, stack, agenda, mode,
                   yielded, ac_runs>>

\* arc_consistency(csp) called directly on the caller's Problem
CallAC ==
    /\ mode = "ac"
    /\ consumer = "idle"
    /\ stack' = <<Frame(RootCsp, 0)>>
    /\ consumer' = "waiting"
    /\ UNCHANGED <<constraints, original, dicts, sets, agenda, mode, yielded, ac_runs>>

\* arc_consistency called again on a Problem whose variables are the dict the
\* first call returned, with the same constraints
Rerun ==
    /\ mode = "ac"
    /\ consumer = "waiting"
    /\ depth = 1
    /\ top.pc = "decide"
    /\ stack' = Append(stack, Frame(top.domains, 0))
    /\ UNCHANGED <<constraints, original, dicts, sets, agenda, mode, consumer,
                   yielded, ac_runs>>

RerunDone ==
    /\ mode = "ac"
    /\ consumer = "waiting"
    /\ depth = 2
    /\ top.pc = "decide"
    /\ consumer' = "done"
    /\ UNCHANGED <<constraints, original, dicts, sets, stack, agenda, mode,
                   yielded, ac_runs>>

Next ==
    \/ StartAC
    \/ ACStep
    \/ ACReturn
    \/ NoSolution
    \/ YieldSolution
    \/ Split
    \/ Return
    \/ FirstNext
    \/ FindAllNext
    \/ FindOneBreak
    \/ CallAC
    \/ Rerun
    \/ RerunDone

Spec == Init /\ [][Next]_vars

\* The Problems in which every variable is given the same domain 1..k
InitUniform ==
    /\ Init
    /\ \E k \in 0..MaxVal : original = [var \in VarNames |-> 1..k]

\* Nothing but the program itself takes steps: a call that can go on does
FairSpec == InitUniform /\ [][Next]_vars /\ WF_vars(Next)

\* The example module of the csp module docstring: Variables and Constraints
ExampleVariables == [A |-> 1..4, B |-> 1..3, C |-> 0..1]

ExampleConstraints ==
    << Constraint("LessThanAB", <<"A", "B">>),
       Constraint("AllDifferent", <<"A", "B", "C">>),
       Constraint("Difference", <<"A", "B", "C">>) >>

InitExample ==
    /\ constraints = ExampleConstraints
    /\ original = ExampleVariables
    /\ dicts = (RootCsp :> [var \in VarNames |-> <<0, 0, var>>])
    /\ sets = [id \in {<<0, 0, var>> : var \in VarNames} |-> original[id[3]]]
    /\ stack = <<>>
    /\ agenda = {}
    /\ mode \in {"one", "all", "ac"}
    /\ consumer = "idle"
    /\ yielded = EmptyAssignment
    /\ ac_runs = 0

SpecExample == InitExample /\ [][Next]_vars

\* Problems with a unary constraint: A's domain may hold the value that
\* AEquals4 accepts
UnaryCatalogue ==
    { Constraint("AEquals4", <<"A">>),
      Constraint("LessThanAB", <<"A", "B">>),
      Constraint("AllDifferent", <<"A", "B", "C">>) }

InitUnary ==
    /\ constraints \in UNION {[1..n -> UnaryCatalogue] : n \in 0..MaxConstraints}
    /\ original \in [VarNames -> {1..k : k \in 0..(MaxVal + 1)}]
    /\ Cardinality(original["B"]) < MaxVal
    /\ Cardinality(original["C"]) < MaxVal
    /\ dicts = (RootCsp :> [var \in VarNames |-> <<0, 0, var>>])
    /\ sets = [id \in {<<0, 0, var>> : var \in VarNames} |-> original[id[3]]]
    /\ stack = <<>>
    /\ agenda = {}
    /\ mode \in {"one", "all", "ac"}
    /\ consumer = "idle"
    /\ yielded = EmptyAssignment
    /\ ac_runs = 0

SpecUnary == InitUnary /\ [][Next]_vars

\* Problems in which no two constraints wrap the same predicate function
InitDistinct ==
    /\ Init
    /\ \A i, j \in 1..Len(constraints) :
          i # j => constraints[i].function # constraints[j].function

SpecDistinct == InitDistinct /\ [][Next]_vars

\* ------------------------------------------------------------------ claims
\* A constraint holds under a complete assignment: the predicate is called
\* with the values of the variables of its scope
Satisfies(assignment, constraint) ==
    Apply(constraint.function,
          [var \in Range(constraint.variables) |-> assignment[var]])

AllConstraints(assignment) ==
    \A i \in 1..Len(constraints) : Satisfies(assignment, constraints[i])

\* Brute-force enumeration of the original domains
BruteForce ==
    {assignment \in [VarNames -> Values] :
        /\ \A var \in VarNames : assignment[var] \in original[var]
        /\ AllConstraints(assignment)}

\* value of var has a support for the constraint within domains
Supported(constraint, var, value, domains) ==
    \E binding \in [Range(constraint.variables) -> Values] :
        /\ binding[var] = value
        /\ \A x \in DOMAIN binding : binding[x] \in domains[x]
        /\ Apply(constraint.function, binding)

ArcConsistent(domains) ==
    \A i \in 1..Len(constraints) :
        \A var \in Range(constraints[i].variables) :
            \A value \in domains[var] :
                Supported(constraints[i], var, value, domains)

Returned == depth > 0 /\ top.pc = "decide"

\* C1: every assignment yielded by domain_splitting satisfies every constraint
\* of the original Problem's constraint list, whatever the agenda order.
Soundness == \A assignment \in DOMAIN yielded : AllConstraints(assignment)

\* C2: once find_all_solutions has exhausted domain_splitting, the set of
\* assignments yielded is the set of assignments of the original domains that
\* satisfy all constraints.
Completeness ==
    (mode = "all" /\ consumer = "done") => DOMAIN yielded = BruteForce

\* C3: on return from arc_consistency the Domain Map is arc consistent: every
\* value left in a variable's domain has a support for every constraint whose
\* scope holds the variable.
ArcConsistentOnReturn == Returned => ArcConsistent(Deref(top.domains))

\* C4: exhausting one domain_splitting sequence never yields the same
\* assignment twice, and the two sub-problems of every split in progress give
\* the split variable disjoint domains.
NoDuplicates ==
    /\ \A assignment \in DOMAIN yielded : yielded[assignment] = 1
    /\ \A k \in 1..depth :
          stack[k].pc \in {"for0", "for1"}
              => \E var \in VarNames :
                    Deref(<<k, 1>>)[var] \cap Deref(<<k, 2>>)[var] = {}

\* find_all_solutions has finished a search that split and found more than
\* one solution
NoDuplicatesWitness ==
    /\ mode = "all"
    /\ consumer = "done"
    /\ ac_runs >= 3
    /\ Cardinality(DOMAIN yielded) >= 2

\* C5: under every agenda removal order the agenda loop of each
\* arc_consistency call reaches an empty agenda, and the search ends: the
\* consumer's loop over the sequence finishes.
Termination ==
    /\ <>(consumer = "done")
    /\ []((depth > 0 /\ top.pc = "ac") => <>(agenda = {}))

\* a search that needed several arc_consistency runs, each with a loaded
\* agenda, has ended
TerminationWitness ==
    /\ consumer = "done"
    /\ mode = "all"
    /\ ac_runs >= 5
    /\ Len(constraints) >= 2

\* C6: during one arc_consistency run every domain update replaces a domain by
\* a subset of it, and at each point of the run, its return included, every
\* domain is a subset of the domain the Problem gave that variable.
MonotonicShrink ==
    /\ [][(depth > 0 /\ top.pc = "ac" /\ Len(stack') = depth)
            => \A var \in VarNames :
                  Deref(top.domains)'[var] \subseteq Deref(top.domains)[var]]_vars
    /\ []((depth > 0 /\ top.pc \in {"ac", "decide"})
            => \A var \in VarNames :
                  Deref(top.domains)[var] \subseteq Deref(top.csp)[var])

\* arc_consistency has returned after removing values from two domains
MonotonicShrinkWitness ==
    /\ Returned
    /\ Cardinality({var \in VarNames :
          Deref(top.domains)[var] # Deref(top.csp)[var]}) >= 2

\* arc_consistency run with one fixed removal order (the agenda always hands
\* out the arc CHOOSE picks)
RECURSIVE fixed_order_run(_, _)
fixed_order_run(domains, arcset) ==
    IF arcset = {} THEN domains
    ELSE LET current_arc == CHOOSE a \in arcset : TRUE
             rest == next_arc(arcset, current_arc)
             new_domain == make_consistent(constraints, current_arc, domains)
         IN  IF new_domain # domains[current_arc.variable]
             THEN fixed_order_run(
                      [domains EXCEPT ![current_arc.variable] = new_domain],
                      add_arcs(constraints, rest,
                          invalidated_arcs(constraints, current_arc,
                              get_initial_arcs(constraints))))
             ELSE fixed_order_run(domains, rest)

\* C7: for a fixed Problem arc_consistency returns the same Domain Map
\* whatever order arcs are removed from the agenda: every run returns what the
\* run with one fixed order returns.
OrderIndependence ==
    Returned =>
        Deref(top.domains) =
            fixed_order_run(Deref(top.csp),
                add_arcs(constraints, {}, get_initial_arcs(constraints)))

\* C8: arc_consistency run on the domains a previous run returned, with the
\* same constraints, returns those domains unchanged.
FixpointIdempotence ==
    (mode = "ac" /\ depth = 2 /\ top.pc = "decide")
        => Deref(top.domains) = Deref(top.csp)

\* The dicts that are the variables mapping of a Problem
CspDicts == {id \in DOMAIN dicts : id[2] # 0}

\* C9: no step changes the variables mapping or a domain set of a Problem (the
\* caller's or a derived one), nor the domains held by a call that is waiting
\* for a sub-problem; the caller's Problem keeps the domains it was given; and
\* a running arc_consistency call works on a dict and sets no Problem refers to.
Isolation ==
    /\ [][\A id \in CspDicts \cup {stack[k].domains : k \in 1..(depth - 1)} :
             (id \in DOMAIN dicts /\ id \in DOMAIN dicts')
                 => Deref(id)' = Deref(id)]_vars
    /\ [](Deref(RootCsp) = original)
    /\ []((depth > 0 /\ top.pc = "ac")
            => /\ top.domains # top.csp
               /\ \A id \in DOMAIN dicts \ {top.domains} :
                     \A var \in VarNames :
                        dicts[id][var] # dicts[top.domains][var])

\* propagation in the second branch of a split has removed values while the
\* parent and both derived Problems are alive
IsolationWitness ==
    /\ depth >= 2
    /\ top.branch = 2
    /\ top.pc = "decide"
    /\ Deref(top.domains) # Deref(top.csp)

\* C10: an arc_consistency run starts only while the consumer is waiting for
\* an element of the sequence, and with find_one_solution none starts once the
\* first assignment has been yielded.
LazyEnumeration ==
    [][(ac_runs' # ac_runs)
         => (consumer = "waiting" /\ ~(mode = "one" /\ DOMAIN yielded # {}))]_vars

\* find_one_solution has stopped at the first assignment while the second
\* sub-problem of some split is still unexplored
LazyEnumerationWitness ==
    /\ mode = "one"
    /\ consumer = "done"
    /\ DOMAIN yielded # {}
    /\ \E k \in 1..depth : stack[k].pc = "for0"

ProblemArcs ==
    UNION {{Arc(i, var) : var \in Range(constraints[i].variables)} :
              i \in 1..Len(constraints)}

\* the (constraint, variable) pairs a set of arcs stands for, a constraint
\* being its function together with its scope
Pairs(arcset) == {<<constraints[arc.constraint], arc.variable>> : arc \in arcset}

\* a step of the agenda loop of the running arc_consistency call
LoopStep ==
    /\ depth > 0
    /\ top.pc = "ac"
    /\ Len(stack') = depth
    /\ stack'[depth].pc = "ac"

\* C12: arc_consistency starts with one pending arc for every (constraint,
\* variable) pair with the variable in the constraint's scope, and at every
\* step every pending arc is one of these pairs.
InitialAgendaCoverage ==
    [][/\ agenda' \subseteq ProblemArcs
       /\ (depth > 0 /\ top.pc = "start" /\ Len(stack') = depth
              /\ stack'[depth].pc = "ac")
          => Pairs(agenda') = Pairs(ProblemArcs)]_vars

\* C13: when revising arc (C, X) changes X's domain, the arcs added to the
\* agenda are exactly the arcs (C', Y) with C' another constraint of the
\* Problem, X in the scope of C' and Y different from X; when the domain is
\* unchanged nothing is added and no domain changes.
ReenqueueRule ==
    [][LoopStep =>
         \E current_arc \in agenda : \A id \in {top.domains} :
            LET X == current_arc.variable
                rest == agenda \ {current_arc}
                dependents ==
                    {arc \in ProblemArcs :
                        /\ constraints[arc.constraint]
                              # constraints[current_arc.constraint]
                        /\ X \in Range(constraints[arc.constraint].variables)
                        /\ arc.variable # X}
            IN  IF Deref(id)' # Deref(id)
                THEN /\ Deref(id)'[X] # Deref(id)[X]
                     /\ Pairs(agenda') = Pairs(rest \cup dependents)
                ELSE agenda' = rest]_vars

\* the variables that share a constraint scope with var
Neighbours(var) ==
    {other \in VarNames :
        \E i \in 1..Len(constraints) :
            {var, other} \subseteq Range(constraints[i].variables)}

\* C14: if arc_consistency returns with some variable's domain empty, every
\* variable that shares a constraint scope with it has an empty returned
\* domain too, and domain_splitting then yields nothing and splits nothing.
EmptyDomainCascade ==
    [][(Returned /\ some_empty(Deref(top.domains))) =>
          /\ \A var \in VarNames :
                Deref(top.domains)[var] = {} =>
                    \A other \in Neighbours(var) : Deref(top.domains)[other] = {}
          /\ Searching => (yielded' = yielded /\ Len(stack') <= depth)]_vars

\* the assignments yielded by the step
NewlyYielded ==
    {assignment \in DOMAIN yielded' :
        assignment \notin DOMAIN yielded
        \/ (assignment \in DOMAIN yielded /\ yielded'[assignment] > yielded[assignment])}

\* assignment takes each of its values from the domains with identity id
Within(assignment, id) ==
    \A var \in DOMAIN assignment : assignment[var] \in Deref(id)[var]

\* C15: at every split the first sub-problem is searched to its end before
\* the second is started: while the call iterates over the first, whatever is
\* yielded lies in the first; when the first ends the call goes on to the
\* second, whether or not the first yielded; from then on whatever is yielded
\* lies in the second.
DepthFirstBranchOrder ==
    [][\A k \in 1..depth :
          /\ stack[k].pc = "for0" =>
                /\ depth > k /\ stack[k + 1].csp = <<k, 1>>
                /\ \A assignment \in NewlyYielded : Within(assignment, <<k, 1>>)
                /\ (Len(stack') >= k /\ stack'[k].pc # "for0") =>
                      /\ depth = k + 1
                      /\ stack[k + 1].pc = "end"
                      /\ stack'[k].pc = "for1"
                      /\ Len(stack') = k + 1
                      /\ stack'[k + 1] = Frame(<<k, 2>>, 2)
          /\ stack[k].pc = "for1" =>
                /\ depth > k /\ stack[k + 1].csp = <<k, 2>>
                /\ \A assignment \in NewlyYielded : Within(assignment, <<k, 2>>)
                /\ Len(stack') >= k => stack'[k].pc \in {"for1", "end"}]_vars

\* propagation of the second sub-problem of the outermost split is running
\* after the first sub-problem has yielded
DepthFirstBranchOrderWitness ==
    /\ depth = 2
    /\ stack[1].pc = "for1"
    /\ top.pc = "ac"
    /\ \E assignment \in DOMAIN yielded : Within(assignment, <<1, 1>>)

\* C16: the two sub-problems of a split hold two non-empty, disjoint parts of
\* the split variable's domain whose union is that domain and whose sizes
\* differ by at most one, the first part being the larger; the split variable
\* is the first in the domains' order with more than one value, and the other
\* variables keep their domains.
SplitPartition ==
    \A k \in 1..depth :
        stack[k].pc \in {"for0", "for1"} =>
            LET domains == Deref(stack[k].domains)
                first == Deref(<<k, 1>>)
                second == Deref(<<k, 2>>)
            IN  \E i \in 1..Len(VarOrder) :
                    LET split_var == VarOrder[i]
                    IN  /\ Cardinality(domains[split_var]) > 1
                        /\ \A j \in 1..(i - 1) :
                              Cardinality(domains[VarOrder[j]]) <= 1
                        /\ first[split_var] # {}
                        /\ second[split_var] # {}
                        /\ first[split_var] \cap second[split_var] = {}
                        /\ first[split_var] \cup second[split_var] = domains[split_var]
                        /\ Cardinality(first[split_var])
                              - Cardinality(second[split_var]) \in {0, 1}
                        /\ \A var \in VarNames \ {split_var} :
                              first[var] = domains[var] /\ second[var] = domains[var]

\* a domain of three values is split, for a variable that is not the first,
\* while a later variable has more than one value too
SplitPartitionWitness ==
    /\ depth >= 2
    /\ stack[1].pc = "for0"
    /\ Cardinality(Deref(stack[1].domains)["A"]) = 1
    /\ Cardinality(Deref(stack[1].domains)["B"]) = 3
    /\ Cardinality(Deref(stack[1].domains)["C"]) > 1
    /\ Cardinality(Deref(<<1, 1>>)["B"]) = 2

\* the sum of the domain sizes
RECURSIVE SizeFrom(_, _)
SizeFrom(domains, i) ==
    IF i > Len(VarOrder) THEN 0
    ELSE Cardinality(domains[VarOrder[i]]) + SizeFrom(domains, i + 1)

Size(domains) == SizeFrom(domains, 1)

\* C17: every recursive domain_splitting call receives a Problem whose sum of
\* domain sizes is strictly smaller than that of its parent call's Problem,
\* and when no original domain is empty the number of nested splits is at
\* most the sum over the variables of (original domain size - 1).
DecreasingMeasure ==
    mode \in {"one", "all"} =>
        /\ \A k \in 2..depth :
              Size(Deref(stack[k].csp)) < Size(Deref(stack[k - 1].csp))
        /\ ~some_empty(original) => depth - 1 <= Size(original) - Len(VarOrder)

\* the nesting of splits has reached the bound, two splits deep
DecreasingMeasureWitness ==
    /\ mode \in {"one", "all"}
    /\ ~some_empty(original)
    /\ depth = 3
    /\ depth - 1 = Size(original) - Len(VarOrder)

\* C18: get_split_var is called only with domains none of which is empty and
\* not all of which are singletons, and then finds a variable: the assertion
\* at its end is not reached.
AssertUnreachable ==
    (Searching /\ top.pc = "decide"
        /\ ~some_empty(Deref(top.domains)) /\ ~unique(Deref(top.domains)))
    => get_split_var(Deref(top.domains)) # "assert"

\* get_split_var is about to be called with domains whose first variable has
\* a single value
AssertUnreachableWitness ==
    /\ Searching
    /\ top.pc = "decide"
    /\ ~some_empty(Deref(top.domains))
    /\ ~unique(Deref(top.domains))
    /\ Cardinality(Deref(top.domains)["A"]) = 1

\* C19: when propagation leaves every domain with exactly one value,
\* domain_splitting yields exactly one assignment, which maps every variable
\* to its sole remaining value, a member of its original domain; it does not
\* split or call itself, and the generator ends when asked for more.
SingletonResult ==
    [][/\ (Searching /\ top.pc = "decide"
              /\ \A var \in VarNames : Cardinality(Deref(top.domains)[var]) = 1)
          => /\ Len(stack') = depth
             /\ stack'[depth].pc = "yielded"
             /\ \E assignment \in NewlyYielded :
                   /\ NewlyYielded = {assignment}
                   /\ yielded'[assignment] =
                         1 + (IF assignment \in DOMAIN yielded
                              THEN yielded[assignment] ELSE 0)
                   /\ DOMAIN assignment = VarNames
                   /\ \A var \in VarNames :
                         /\ Deref(top.domains)[var] = {assignment[var]}
                         /\ assignment[var] \in original[var]
       /\ (depth > 0 /\ top.pc = "yielded")
          => /\ yielded' = yielded
             /\ Len(stack') <= depth
             /\ Len(stack') = depth => stack'[depth].pc \in {"yielded", "end"}]_vars

\* the outermost call has yielded after propagation pruned the Problem's
\* domains down to one value each, none of them the value 1 alone
SingletonResultWitness ==
    /\ depth = 1
    /\ top.pc = "yielded"
    /\ Deref(top.domains) # original
    /\ \E var \in VarNames : Deref(top.domains)[var] # {1}

\* the arc that the step of the agenda loop took from the agenda
Revised == agenda \ agenda'

\* the constraints of the Problem whose scope is one variable
UnaryIndices == {i \in 1..Len(constraints) : Len(constraints[i].variables) = 1}

\* C20: revising the arc of a constraint whose scope is a single variable X
\* keeps exactly the values of X's current domain for which the predicate
\* holds; a unary constraint that no value of X's domain satisfies leaves X's
\* domain empty on return, and the search yields nothing.
UnaryConstraints ==
    [][/\ LoopStep =>
             \A arc \in Revised : \A id \in {top.domains} :
                arc.constraint \in UnaryIndices =>
                    Deref(id)'[arc.variable] =
                        {value \in Deref(id)[arc.variable] :
                            Apply(constraints[arc.constraint].function,
                                  arc.variable :> value)}
       /\ \A i \in UnaryIndices :
             LET X == constraints[i].variables[1]
             IN  (\A value \in original[X] :
                     ~Apply(constraints[i].function, X :> value))
                 => /\ yielded' = EmptyAssignment
                    /\ Returned => Deref(top.domains)[X] = {}]_vars

\* arc_consistency has returned with A's domain cut down to the one value the
\* unary constraint accepts
UnaryConstraintsWitness ==
    /\ Returned
    /\ UnaryIndices # {}
    /\ Cardinality(original["A"]) > 1
    /\ Deref(top.domains)["A"] = {4}

\* revising arc would not change its variable's domain in domains
Consistent(arc, domains) ==
    make_consistent(constraints, arc, domains) = domains[arc.variable]

\* C21: provided no two constraints wrap the same predicate function, at the
\* start of every iteration of arc_consistency's loop every arc of the
\* Problem that is not pending in the agenda is consistent with the current
\* domains, and revising arc (C, X) never breaks the consistency of another
\* arc (C, Y) of the same constraint.
WorklistInvariant ==
    [][/\ (depth > 0 /\ top.pc = "ac") =>
             \A arc \in ProblemArcs \ agenda : Consistent(arc, Deref(top.domains))
       /\ LoopStep =>
             \A current_arc \in Revised : \A id \in {top.domains} :
                \A arc \in ProblemArcs :
                    (/\ arc.constraint = current_arc.constraint
                     /\ arc.variable # current_arc.variable
                     /\ Consistent(arc, Deref(id)))
                    => Consistent(arc, Deref(id)')]_vars

\* the loop is under way with two constraints: a domain has been cut, an arc
\* that had left the agenda is pending again, and another is not pending
WorklistInvariantWitness ==
    /\ depth > 0
    /\ top.pc = "ac"
    /\ Len(constraints) = 2
    /\ constraints[1].function # constraints[2].function
    /\ Deref(top.domains) # Deref(top.csp)
    /\ agenda # {}
    /\ ProblemArcs \ agenda # {}
    /\ \E arc \in agenda : ~Consistent(arc, Deref(top.domains))

====
